---- MODULE Spec2Model ----
(***************************************************************************)
(* The real-time hub of AfroChat: the documented websocket Hub (its Run    *)
(* loop, BroadcastMessage and HandleTyping) together with the designed     *)
(* Membership Index, Presence Tracker and Call Signaling Relay that the    *)
(* Hub Coordinator serialises.                                             *)
(***************************************************************************)
EXTENDS Integers, Sequences, FiniteSets, TLC

\* ------------------------------------------------------------------ bounds
\* Capacity of a client's buffered send channel.
QueueCap == 2
\* Number of publish / typing intents the Coordinator accepts.
MaxEvents == 3
\* Number of relay intents the Coordinator accepts.
MaxRelays == 2
\* Number of sweep intervals the clock runs for.
MaxTime == 4
\* Number of intents the session tasks submit on the channels of the Hub.
MaxIntents == 4
\* Number of health requests that the running server answers.
MaxRequests == 2

\* ------------------------------------------------------------ the universe
Sessions == {"s1", "s2", "s3"}
Users == {"u1", "u2"}
Channels == {"c1", "c2"}
Calls == {"k1"}

\* Client.UserID: the owning user of each session.
UserOf(s) == IF s = "s3" THEN "u2" ELSE "u1"

\* The external channel-membership collaborator: who may join what.
Authorized(u, c) == ~(u = "u2" /\ c = "c2")

\* Event types whose publish leaves out the originating session.
EchoSuppressed == {"user_typing"}

\* Payload kinds of a signaling envelope.
Kinds == {"webrtc_offer", "webrtc_answer", "webrtc_ice_candidate"}

VARIABLES
    clients,    \* h.clients: the registered (live) sessions
    rooms,      \* h.rooms: channel id -> member sessions
    joined,     \* inverse index: session id -> joined channel ids
    send,       \* client.send: each session's bounded outbound queue
    closed,     \* whether client.send has been closed
    wire,       \* the event each session's drain task wrote to the wire last
    panicked,   \* the Hub goroutine died (send on a closed channel)
    accepted,   \* number of publish / relay intents accepted (the timestamp)
    status,     \* Presence Record: user id -> online | offline
    calls,      \* Call: call id -> state, channel, sessions party to it
    emitted,    \* the facts the last Coordinator step put on the fact stream
    reply,      \* the result returned to the originator of the last intent
    typing,     \* Presence Record: user id -> channel id -> expiry (0: no entry)
    now,        \* the clock, in sweep intervals
    intake,     \* h.register, h.unregister, h.broadcast: what the tasks have
                \* submitted and Run has not received yet, and what it received last
    proc        \* the server process: its program, position, environment,
                \* database handle, deferred calls and health responses

vars == <<clients, rooms, joined, send, closed, wire, panicked, accepted,
          status, calls, emitted, reply, typing, now, intake, proc>>

\* ------------------------------------------------------------------ helpers
RECURSIVE Perms(_)
Perms(S) ==
    IF S = {} THEN {<<>>}
    ELSE UNION {{<<x>> \o p : p \in Perms(S \ {x})} : x \in S}

RECURSIVE SetToSeq(_)
SetToSeq(S) ==
    IF S = {} THEN <<>>
    ELSE LET x == CHOOSE y \in S : TRUE IN <<x>> \o SetToSeq(S \ {x})

\* The part of the hub that a delivery touches.
Queues == [send |-> send, closed |-> closed, clients |-> clients, panicked |-> panicked]

\* A slip in the loop body: the event is put at the head of the buffer.
Enqueue_AtHead(q, m, e) ==
    IF q.panicked THEN q
    ELSE IF q.closed[m] THEN [q EXCEPT !.panicked = TRUE]
    ELSE IF Len(q.send[m]) < QueueCap
         THEN [q EXCEPT !.send[m] = <<e>> \o @]
         ELSE [q EXCEPT !.closed[m] = TRUE, !.clients = @ \ {m}]

\* A slip in the loop body: a full buffer loses its oldest event to make room.
Enqueue_DropOldest(q, m, e) ==
    IF q.panicked THEN q
    ELSE IF q.closed[m] THEN [q EXCEPT !.panicked = TRUE]
    ELSE IF Len(q.send[m]) < QueueCap
         THEN [q EXCEPT !.send[m] = Append(@, e)]
         ELSE [q EXCEPT !.send[m] = Append(Tail(@), e)]

\* One iteration of BroadcastMessage's loop body: a non-blocking send on
\* member.send; when the buffer is full the channel is closed and the member is
\* deleted from h.clients. A send on a closed channel panics.
Enqueue(q, m, e) ==
    IF q.panicked THEN q
    ELSE IF q.closed[m] THEN [q EXCEPT !.panicked = TRUE]
    ELSE IF Len(q.send[m]) < QueueCap
         THEN [q EXCEPT !.send[m] = Append(@, e)]
         ELSE [q EXCEPT !.closed[m] = TRUE, !.clients = @ \ {m}]

\* A slip in the loop: the last member the map yields is left out.
RECURSIVE Fanout_StopEarly(_, _, _)
Fanout_StopEarly(q, order, e) ==
    IF Len(order) <= 1 THEN q
    ELSE Fanout_StopEarly(Enqueue(q, Head(order), e), Tail(order), e)

\* BroadcastMessage's loop over the members, in the order the map yields them.
RECURSIVE Fanout(_, _, _)
Fanout(q, order, e) ==
    IF order = <<>> THEN q
    ELSE Fanout(Enqueue(q, Head(order), e), Tail(order), e)

\* Every outcome of fanning e out to the sessions M: Go ranges over a map in an
\* unspecified order.
Deliver(q, M, e) == {Fanout(q, order, e) : order \in Perms(M)}

\* Every outcome of a sequence of fan-outs, each a pair <<recipients, event>>.
RECURSIVE DeliverAll(_, _)
DeliverAll(qs, todo) ==
    IF todo = <<>> THEN qs
    ELSE DeliverAll(UNION {Deliver(q, Head(todo)[1], Head(todo)[2]) : q \in qs},
                    Tail(todo))

\* getChannelMembers
membersOf(c) == rooms[c]

\* Every outbound event carries {type, data, timestamp}.
Event(t, c, d) == [type |-> t, chan |-> c, data |-> d, seq |-> accepted + 1]

\* An event of the cascade: stamped with the current time, which only an
\* accepted intent advances.
Notice(t, c, d) == [type |-> t, chan |-> c, data |-> d, seq |-> accepted]

\* The record of an accepted publish and its originating session, handed to
\* message persistence.
Published(e, s) == [fact |-> "published", event |-> e, origin |-> s]

\* Nothing written to the wire yet.
NoEvent == [type |-> "none", chan |-> "none", data |-> "none", seq |-> 0]

NoCall == [state |-> "none", chan |-> "none", sess |-> {}]

\* The participant users of a call: the owners of the sessions party to it.
Participants(k) == {UserOf(s) : s \in calls[k].sess}

\* The live sessions of a user, as the registry h.clients has them.
LiveSessions(cl, u) == {s \in cl : UserOf(s) = u}

\* Adopt the outcome q of a delivery.
Adopt(q) ==
    /\ send' = q.send
    /\ closed' = q.closed
    /\ clients' = q.clients
    /\ panicked' = q.panicked

\* The environment variables, in the order LoadApplicationConfig reads them.
EnvVars == <<"PORT", "DB_HOST", "DB_PORT", "DB_USER", "DB_PASSWORD", "DB_NAME",
             "DB_SSLMODE", "ENVIRONMENT">>

EnvKeys == {EnvVars[i] : i \in 1..Len(EnvVars)}

\* The environments of the process: each variable is unset or empty, or holds a
\* value of its own (named after the variable).
Environments == {[k \in EnvKeys |-> IF k \in S THEN k ELSE ""] : S \in SUBSET EnvKeys}

\* type ApplicationConfig struct, zero value
NoConfig == [Port |-> "", DBHost |-> "", DBPort |-> "", DBUser |-> "", DBPass |-> "",
             DBName |-> "", DBSSL |-> "", Env |-> ""]

\* A nil *DatabaseConnection.
NoConn == [set |-> FALSE, Host |-> "", Port |-> "", DBName |-> ""]

\* The process before it is started.
NoProcess == [prog |-> "none", pc |-> "none", exit |-> "none",
              env |-> [k \in EnvKeys |-> ""], config |-> NoConfig,
              conn |-> NoConn, err |-> "nil", db |-> "none",
              opened |-> FALSE, pinged |-> FALSE,
              deferred |-> <<>>, closes |-> 0,
              requests |-> 0, ping |-> "nil", resp |-> <<>>]

\* The three channels of the Hub, empty, with nothing received yet; arrived
\* counts the submissions.
NoIntent == [n |-> 0, sess |-> "none", chan |-> "none"]

NoIntake == [register |-> <<>>, unregister |-> <<>>, broadcast |-> <<>>,
             arrived |-> 0, last |-> NoIntent]

\* -------------------------------------------------------------------- Init
Init ==
    /\ clients = {}
    /\ rooms = [c \in Channels |-> {}]
    /\ joined = [s \in Sessions |-> {}]
    /\ send = [s \in Sessions |-> <<>>]
    /\ closed = [s \in Sessions |-> FALSE]
    /\ wire = [s \in Sessions |-> NoEvent]
    /\ panicked = FALSE
    /\ accepted = 0
    /\ status = [u \in Users |-> "offline"]
    /\ calls = [k \in Calls |-> NoCall]
    /\ emitted = <<>>
    /\ reply = "none"
    /\ typing = [u \in Users |-> [c \in Channels |-> 0]]
    /\ now = 0
    /\ intake = NoIntake
    /\ proc = NoProcess

\* joinRoom: enter the session into the rooms of its joined-channel set, which
\* is empty for a session just created.
JoinRoom(s) == [c \in Channels |-> IF c \in joined[s] THEN rooms[c] \cup {s} ELSE rooms[c]]

\* ---------------------------------------------------------------- presence
\* A slip in touch: every touch announces the user.
TouchFlips_Always(u) == TRUE

\* touch(userId): an offline user flips to online and a presence-changed event
\* goes to the channels the user's sessions share with others.
TouchFlips(u) == status[u] = "offline"

TouchStatus(u) == [status EXCEPT ![u] = "online"]

\* The channels in which sessions of u sit, and the fan-outs of a notice to them.
ChannelsOf(u) == {c \in Channels : \E s \in rooms[c] : UserOf(s) = u}

PresenceFanouts(u, st, rm) ==
    [i \in 1..Len(SetToSeq(ChannelsOf(u))) |->
        LET c == SetToSeq(ChannelsOf(u))[i] IN
        <<{m \in rm[c] : UserOf(m) /= u},
          Notice("presence_changed", c, <<u, st>>)>>]

PresenceFact(u, st) == [fact |-> "presence_changed", user |-> u, status |-> st]

\* The user's activity on a live session.
Touch(s) ==
    /\ ~panicked
    /\ s \in clients
    /\ IF TouchFlips(UserOf(s))
       THEN /\ status' = TouchStatus(UserOf(s))
            /\ emitted' = <<PresenceFact(UserOf(s), "online")>>
            /\ \E q \in DeliverAll({Queues}, PresenceFanouts(UserOf(s), "online", rooms)) :
                 Adopt(q)
       ELSE /\ emitted' = <<>>
            /\ UNCHANGED <<status, send, closed, clients, panicked>>
    /\ reply' = "ok"
    /\ UNCHANGED <<rooms, joined, wire, accepted, calls>>
    /\ UNCHANGED <<typing, now>>
    /\ UNCHANGED <<intake, proc>>

\* ----------------------------------------------------------------- actions
\* case client := <-h.register, and open(userId): the session is created and
\* its user touched.
RegisterCase(s) ==
    /\ ~panicked
    /\ s \notin clients /\ ~closed[s]
    /\ LET u == UserOf(s)
           q0 == [Queues EXCEPT !.clients = @ \cup {s}] IN
       IF TouchFlips(u)
       THEN /\ status' = TouchStatus(u)
            /\ emitted' = <<PresenceFact(u, "online")>>
            /\ \E q \in DeliverAll({q0}, PresenceFanouts(u, "online", rooms)) : Adopt(q)
       ELSE /\ emitted' = <<>>
            /\ Adopt(q0)
            /\ UNCHANGED status
    /\ rooms' = JoinRoom(s)
    /\ reply' = "ok"
    /\ UNCHANGED <<joined, wire, accepted, calls>>
    /\ UNCHANGED <<typing, now>>

\* The register case applied directly, with no intent waiting in a channel.
Register(s) ==
    /\ RegisterCase(s)
    /\ UNCHANGED <<intake, proc>>

\* leaveRoom: release the session from every channel it had joined.
LeaveRoom(s) == [c \in Channels |-> rooms[c] \ {s}]

\* A slip in the unregister case: the leaveRoom call is left out.
RoomsOnUnregister_NoLeave(s) == rooms

\* h.leaveRoom(client) in the unregister case.
RoomsOnUnregister(s) == LeaveRoom(s)

\* A slip in the departure: the call outlives its last session.
WithoutSession_NoEnd(call, s) == [call EXCEPT !.sess = @ \ {s}]

\* A call record once session s has left it: with nobody left the call ends.
WithoutSession(call, s) ==
    IF s \notin call.sess THEN call
    ELSE IF call.sess = {s}
         THEN [call EXCEPT !.sess = {}, !.state = "ended"]
         ELSE [call EXCEPT !.sess = @ \ {s}]

\* The calls that the departure of s ends.
EndedBy(s) == {k \in Calls : calls[k].sess = {s} /\ calls[k].state /= "ended"}

CallEndedFanouts(s, rm) ==
    [i \in 1..Len(SetToSeq(EndedBy(s))) |->
        LET k == SetToSeq(EndedBy(s))[i] IN
        <<rm[calls[k].chan], Notice("call_ended", calls[k].chan, k)>>]

CallEndedFacts(s) ==
    [i \in 1..Len(SetToSeq(EndedBy(s))) |->
        [fact |-> "call_ended", call |-> SetToSeq(EndedBy(s))[i]]]

\* sessionClosed(userId): offline only with zero remaining live sessions.
GoesOffline(s) ==
    /\ LiveSessions(clients \ {s}, UserOf(s)) = {}
    /\ status[UserOf(s)] /= "offline"

\* A slip in the unregister case: the lookup in h.clients is left out.
Registered_Always(s) == TRUE

\* if _, ok := h.clients[client]; ok
Registered(s) == s \in clients

\* case client := <-h.unregister, and close(sessionId) with its cascade through
\* the Membership Index, the Presence Tracker and the calls of the session.
UnregisterCase(s) ==
    /\ ~panicked
    /\ IF Registered(s)
       THEN LET u == UserOf(s)
                q0 == [Queues EXCEPT !.clients = @ \ {s}, !.closed[s] = TRUE]
                rm == RoomsOnUnregister(s)
                todo == (IF GoesOffline(s) THEN PresenceFanouts(u, "offline", rm) ELSE <<>>)
                        \o CallEndedFanouts(s, rm)
            IN  /\ rooms' = rm
                /\ joined' = [joined EXCEPT ![s] = {}]
                /\ status' = IF GoesOffline(s) THEN [status EXCEPT ![u] = "offline"]
                             ELSE status
                /\ calls' = [k \in Calls |-> WithoutSession(calls[k], s)]
                /\ emitted' = <<[fact |-> "session_closed", session |-> s]>>
                              \o (IF GoesOffline(s) THEN <<PresenceFact(u, "offline")>>
                                  ELSE <<>>)
                              \o CallEndedFacts(s)
                /\ \E q \in DeliverAll({q0}, todo) : Adopt(q)
       ELSE /\ emitted' = <<>>
            /\ UNCHANGED <<clients, closed, send, panicked, rooms, joined, status, calls>>
    /\ reply' = "ok"
    /\ UNCHANGED <<wire, accepted>>
    /\ UNCHANGED <<typing, now>>

\* The unregister case applied directly, with no intent waiting in a channel.
Unregister(s) ==
    /\ UnregisterCase(s)
    /\ UNCHANGED <<intake, proc>>

\* A slip in join: a second join of a member takes the session out again.
JoinRooms_Toggle(rm, s, c) ==
    IF s \in rm[c] THEN [rm EXCEPT ![c] = @ \ {s}] ELSE [rm EXCEPT ![c] = @ \cup {s}]

\* The two mappings of the Membership Index once s has joined c.
JoinRooms(rm, s, c) == [rm EXCEPT ![c] = @ \cup {s}]

JoinJoined(jn, s, c) == [jn EXCEPT ![s] = @ \cup {c}]

\* A slip in leave: the inverse mapping keeps the channel.
LeaveJoined_Keep(jn, s, c) == jn

\* The two mappings of the Membership Index once s has left c.
LeaveRooms(rm, s, c) == [rm EXCEPT ![c] = @ \ {s}]

LeaveJoined(jn, s, c) == [jn EXCEPT ![s] = @ \ {c}]

\* join(sessionId, channelId)
Join(s, c) ==
    /\ ~panicked
    /\ s \in clients
    /\ IF Authorized(UserOf(s), c)
       THEN /\ rooms' = JoinRooms(rooms, s, c)
            /\ joined' = JoinJoined(joined, s, c)
            /\ reply' = "ok"
       ELSE /\ reply' = "NotAMember"
            /\ UNCHANGED <<rooms, joined>>
    /\ emitted' = <<>>
    /\ UNCHANGED <<clients, send, closed, wire, panicked, accepted, status, calls>>
    /\ UNCHANGED <<typing, now>>
    /\ UNCHANGED <<intake, proc>>

\* leave(sessionId, channelId)
Leave(s, c) ==
    /\ ~panicked
    /\ s \in clients
    /\ rooms' = LeaveRooms(rooms, s, c)
    /\ joined' = LeaveJoined(joined, s, c)
    /\ reply' = "ok"
    /\ emitted' = <<>>
    /\ UNCHANGED <<clients, send, closed, wire, panicked, accepted, status, calls>>
    /\ UNCHANGED <<typing, now>>
    /\ UNCHANGED <<intake, proc>>

\* A slip in the validation: every send is let through.
MayPublish_Always(s, c) == TRUE

\* The Coordinator's validation of a send_message intent: the user must have
\* access to the channel.
MayPublish(s, c) == Authorized(UserOf(s), c)

\* A send_message intent of session s: the Coordinator's validation, then
\* func (h *Hub) BroadcastMessage(message *Message)
BroadcastCase(s, c) ==
    /\ ~panicked
    /\ IF MayPublish(s, c)
       THEN /\ accepted < MaxEvents
            /\ \E q \in Deliver(Queues, membersOf(c),
                                Event("message_sent", c, "message")) : Adopt(q)
            /\ accepted' = accepted + 1
            /\ reply' = "ok"
            /\ emitted' = <<Published(Event("message_sent", c, "message"), s)>>
       ELSE /\ reply' = "NotAMember"
            /\ emitted' = <<>>
            /\ UNCHANGED <<clients, send, closed, panicked, accepted>>
    /\ UNCHANGED <<rooms, joined, wire, status, calls>>
    /\ UNCHANGED <<typing, now>>

\* A send_message of a live session applied directly.
BroadcastMessage(s, c) ==
    /\ s \in clients
    /\ BroadcastCase(s, c)
    /\ UNCHANGED <<intake, proc>>

\* broadcastToChannel: publish(channelId, event), leaving out the originating
\* session of an echo-suppressed event.
Recipients(c, e, origin) ==
    IF e.type \in EchoSuppressed THEN membersOf(c) \ {origin} ELSE membersOf(c)

\* The debounce window of a typing entry, in sweep intervals.
Debounce == 2

\* markTyping(userId, channelId): set or refresh the expiry of the entry.
MarkTyping(u, c) == [typing EXCEPT ![u][c] = now + Debounce]

\* func (h *Hub) HandleTyping(client *Client, channelID uuid.UUID), with the
\* Presence Tracker's markTyping for the typing intent.
HandleTyping(s, c) ==
    /\ ~panicked
    /\ s \in clients
    /\ accepted < MaxEvents
    /\ LET e == Event("user_typing", c, UserOf(s)) IN
       /\ \E q \in Deliver(Queues, Recipients(c, e, s), e) : Adopt(q)
       /\ emitted' = <<Published(e, s)>>
    /\ accepted' = accepted + 1
    /\ reply' = "ok"
    /\ UNCHANGED <<rooms, joined, wire, status, calls>>
    /\ typing' = MarkTyping(UserOf(s), c)
    /\ UNCHANGED now
    /\ UNCHANGED <<intake, proc>>

\* The typing entries <<user, channel>> that are stale at time t.
Stale(t) ==
    {uc \in Users \X Channels :
        typing[uc[1]][uc[2]] /= 0 /\ typing[uc[1]][uc[2]] <= t}

\* A slip in the sweep: the stale entries are reported and left in place.
AfterSweep_Keep(t) == typing

\* The typing entries once the sweep at time t has expired the stale ones.
AfterSweep(t) ==
    [u \in Users |-> [c \in Channels |->
        IF <<u, c>> \in Stale(t) THEN 0 ELSE typing[u][c]]]

\* One typing-stopped event per stale entry, to the members of its channel.
StoppedFanouts(t) ==
    [i \in 1..Len(SetToSeq(Stale(t))) |->
        LET uc == SetToSeq(Stale(t))[i] IN
        <<membersOf(uc[2]), Notice("typing_stopped", uc[2], uc[1])>>]

StoppedFact(u, c) == [fact |-> "typing_stopped", user |-> u, chan |-> c]

StoppedFacts(t) ==
    [i \in 1..Len(SetToSeq(Stale(t))) |->
        StoppedFact(SetToSeq(Stale(t))[i][1], SetToSeq(Stale(t))[i][2])]

\* The background sweep, one more intent of the Coordinator's intake: it runs
\* once per interval, expires the stale typing entries and emits their
\* typing-stopped events.
Sweep ==
    /\ ~panicked
    /\ now < MaxTime
    /\ now' = now + 1
    /\ typing' = AfterSweep(now + 1)
    /\ emitted' = StoppedFacts(now + 1)
    /\ \E q \in DeliverAll({Queues}, StoppedFanouts(now + 1)) : Adopt(q)
    /\ UNCHANGED <<rooms, joined, wire, accepted, status, calls, reply>>
    /\ UNCHANGED <<intake, proc>>

\* The session's drain task: one event from client.send to the wire. A closed
\* channel still yields what it buffered.
Drain(s) ==
    /\ send[s] /= <<>>
    /\ wire' = [wire EXCEPT ![s] = Head(send[s])]
    /\ send' = [send EXCEPT ![s] = Tail(@)]
    /\ UNCHANGED <<clients, rooms, joined, closed, panicked, accepted,
                   status, calls, emitted, reply>>
    /\ UNCHANGED <<typing, now>>
    /\ UNCHANGED <<intake, proc>>

\* ------------------------------------------------------------------- calls
\* The call ids not yet handed out.
FreeCalls == {k \in Calls : calls[k].state = "none"}

\* startCall(channelId, userId) -> callId, on a start_call intent of session s.
StartCall(s, c) ==
    /\ ~panicked
    /\ s \in clients
    /\ FreeCalls /= {}
    /\ IF s \in membersOf(c)
       THEN /\ calls' = [calls EXCEPT ![CHOOSE k \in FreeCalls : TRUE] =
                            [state |-> "pending", chan |-> c, sess |-> {s}]]
            /\ reply' = "ok"
       ELSE /\ reply' = "ChannelNotFound"
            /\ UNCHANGED calls
    /\ emitted' = <<>>
    /\ UNCHANGED <<clients, rooms, joined, send, closed, wire, panicked, accepted, status>>
    /\ UNCHANGED <<typing, now>>
    /\ UNCHANGED <<intake, proc>>

\* A slip in joinCall: the user's former session stays party to the call.
WithSession_NoEvict(call, s) == call.sess \cup {s}

\* The sessions of a call once s has joined: s takes the place of any other
\* session of its user.
WithSession(call, s) == (call.sess \ {t \in Sessions : UserOf(t) = UserOf(s)}) \cup {s}

\* A slip in joinCall: any join makes the call active.
StateWith_AnyJoin(call, ss) == "active"

\* The state of a call that holds the sessions ss.
StateWith(call, ss) ==
    IF Cardinality({UserOf(t) : t \in ss}) >= 2 THEN "active" ELSE call.state

\* A slip in joinCall: a call that has ended is not told from a running one.
JoinCallError_EndedJoinable(call) ==
    IF call.state = "none" THEN "CallNotFound" ELSE "ok"

\* The error, if any, of a joinCall to the call record.
JoinCallError(call) ==
    IF call.state = "none" THEN "CallNotFound"
    ELSE IF call.state = "ended" THEN "CallEnded"
    ELSE "ok"

\* joinCall(callId, userId, sessionId)
JoinCall(s, k) ==
    /\ ~panicked
    /\ s \in clients
    /\ IF JoinCallError(calls[k]) /= "ok"
       THEN /\ reply' = JoinCallError(calls[k])
            /\ UNCHANGED calls
       ELSE /\ calls' = [calls EXCEPT ![k] =
                            [@ EXCEPT !.sess = WithSession(calls[k], s),
                                      !.state = StateWith(calls[k], WithSession(calls[k], s))]]
            /\ reply' = "ok"
    /\ emitted' = <<>>
    /\ UNCHANGED <<clients, rooms, joined, send, closed, wire, panicked, accepted, status>>
    /\ UNCHANGED <<typing, now>>
    /\ UNCHANGED <<intake, proc>>

\* leaveCall(callId, sessionId)
LeaveCall(s, k) ==
    /\ ~panicked
    /\ s \in clients
    /\ calls' = [calls EXCEPT ![k] = WithoutSession(calls[k], s)]
    /\ IF k \in EndedBy(s)
       THEN /\ emitted' = <<[fact |-> "call_ended", call |-> k]>>
            /\ \E q \in Deliver(Queues, membersOf(calls[k].chan),
                                Notice("call_ended", calls[k].chan, k)) : Adopt(q)
       ELSE /\ emitted' = <<>>
            /\ UNCHANGED <<clients, send, closed, panicked>>
    /\ reply' = "ok"
    /\ UNCHANGED <<rooms, joined, wire, accepted, status>>
    /\ UNCHANGED <<typing, now>>
    /\ UNCHANGED <<intake, proc>>

\* Signaling Envelope
Envelope(k, from, to, kind, payload, n) ==
    [call |-> k, sender |-> from, recipient |-> to, kind |-> kind,
     payload |-> payload, seqno |-> n]

\* A slip in relay: the envelope goes to every live session of the recipient.
RelayTargets_AnySession(env) == {t \in clients : UserOf(t) = env.recipient}

\* The sessions an envelope is forwarded to: those of the recipient that are
\* party to the call.
RelayTargets(env) ==
    IF calls[env.call].state \in {"pending", "active"}
    THEN {t \in calls[env.call].sess : UserOf(t) = env.recipient}
    ELSE {}

\* The event that carries an envelope.
RelayEvent(env) == Event(env.kind, calls[env.call].chan, env)

\* relay(envelope), on a webrtc_* intent of session s.
Relay(s, env) ==
    /\ ~panicked
    /\ s \in clients
    /\ env.sender = UserOf(s)
    /\ accepted < MaxRelays
    /\ \E q \in Deliver(Queues, RelayTargets(env), RelayEvent(env)) : Adopt(q)
    /\ emitted' = <<[fact |-> "relay", envelope |-> env]>>
    /\ accepted' = accepted + 1
    /\ reply' = "ok"
    /\ UNCHANGED <<rooms, joined, wire, status, calls>>
    /\ UNCHANGED <<typing, now>>
    /\ UNCHANGED <<intake, proc>>

\* The intents of the sessions S on the channels C, their typing intents on the
\* channels T, and the drain tasks.
HubStep(S, C, T) ==
    \/ \E s \in S : Register(s)
    \/ \E s \in S : Unregister(s)
    \/ \E s \in S, c \in C : Join(s, c)
    \/ \E s \in S, c \in C : Leave(s, c)
    \/ \E s \in S, c \in C : BroadcastMessage(s, c)
    \/ \E s \in S, c \in T : HandleTyping(s, c)
    \/ \E s \in S : Touch(s)
    \/ \E s \in S : Drain(s)

Next == HubStep({"s1", "s3"}, Channels, {"c1"})

Spec == Init /\ [][Next]_vars

\* The payloads and sequence numbers that the clients put into envelopes.
Payloads == {"sdp1"}
EnvSeqs == {1}
Offers == {"webrtc_offer"}

\* The call intents of the sessions S on the channels C.
CallStep(S, C) ==
    \/ \E s \in S : Register(s)
    \/ \E s \in S : Unregister(s)
    \/ \E s \in S, c \in C : Join(s, c)
    \/ \E s \in S, c \in C : StartCall(s, c)
    \/ \E s \in S, k \in Calls : JoinCall(s, k)
    \/ \E s \in S, k \in Calls : LeaveCall(s, k)
    \/ \E s \in S, k \in Calls, kind \in Offers, p \in Payloads, n \in EnvSeqs :
          \E to \in Users \ {UserOf(s)} :
             Relay(s, Envelope(k, UserOf(s), to, kind, p, n))
    \/ \E s \in S : Drain(s)

NextCall == CallStep(Sessions, {"c1"})

SpecCall == Init /\ [][NextCall]_vars

\* The typing intents of the sessions S on the channels C, and the sweep.
TypingStep(S, C) ==
    \/ \E s \in S : Register(s)
    \/ \E s \in S : Unregister(s)
    \/ \E s \in S, c \in C : Join(s, c)
    \/ \E s \in S, c \in C : HandleTyping(s, c)
    \/ Sweep
    \/ \E s \in S : Drain(s)

NextTyping == TypingStep({"s1", "s3"}, {"c1"})

SpecTyping == Init /\ [][NextTyping]_vars

\* The intents of the sessions S on the channels C that validation may reject.
IntentStep(S, C) ==
    \/ \E s \in S : Register(s)
    \/ \E s \in S : Unregister(s)
    \/ \E s \in S, c \in C : Join(s, c)
    \/ \E s \in S, c \in C : BroadcastMessage(s, c)
    \/ \E s \in S, c \in C : StartCall(s, c)
    \/ \E s \in S, k \in Calls : JoinCall(s, k)
    \/ \E s \in S, k \in Calls : LeaveCall(s, k)
    \/ \E s \in S : Drain(s)

NextIntent == IntentStep({"s1", "s3"}, Channels)

SpecIntent == Init /\ [][NextIntent]_vars

\* The publishes of the sessions S to the channels C, with the sessions coming,
\* going and draining as they please.
SlowStep(S, C) ==
    \/ \E s \in S : Register(s)
    \/ \E s \in S : Unregister(s)
    \/ \E s \in S, c \in C : Join(s, c)
    \/ \E s \in S, c \in C : BroadcastMessage(s, c)
    \/ \E s \in S : Drain(s)

NextSlow == SlowStep(Sessions, {"c1"})

SpecSlow == Init /\ [][NextSlow]_vars

\* -------------------------------------------------------------- the intake
\* Everything of the Hub but its channels.
hub == <<clients, rooms, joined, send, closed, wire, panicked, accepted,
         status, calls, emitted, reply, typing, now>>

\* The intent that a task submits next, stamped with its arrival.
Intent(s, c) == [n |-> intake.arrived + 1, sess |-> s, chan |-> c]

\* The sessions with an intent waiting on a channel.
Waiting(ch) == {ch[i].sess : i \in 1..Len(ch)}

\* A slip in the receive: the channel yields what was sent on it last.
Received_Newest(ch) == ch[Len(ch)]

\* client := <-h.register: a channel yields what was sent on it first.
Received(ch) == Head(ch)

\* A connection's task sends its client on h.register.
SubmitRegister(s) ==
    /\ intake.arrived < MaxIntents
    /\ s \notin clients /\ ~closed[s]
    /\ s \notin Waiting(intake.register)
    /\ intake' = [intake EXCEPT !.register = Append(@, Intent(s, "none")),
                                !.arrived = @ + 1]
    /\ UNCHANGED proc
    /\ UNCHANGED hub

\* A connection's task sends its client on h.unregister when the connection
\* ends.
SubmitUnregister(s) ==
    /\ intake.arrived < MaxIntents
    /\ s \in clients \cup Waiting(intake.register)
    /\ s \notin Waiting(intake.unregister)
    /\ intake' = [intake EXCEPT !.unregister = Append(@, Intent(s, "none")),
                                !.arrived = @ + 1]
    /\ UNCHANGED proc
    /\ UNCHANGED hub

\* A connection's task sends a message for channel c on h.broadcast.
SubmitBroadcast(s, c) ==
    /\ intake.arrived < MaxIntents
    /\ s \in clients
    /\ accepted + Len(intake.broadcast) < MaxEvents
    /\ intake' = [intake EXCEPT !.broadcast = Append(@, Intent(s, c)),
                                !.arrived = @ + 1]
    /\ UNCHANGED proc
    /\ UNCHANGED hub

\* Run: case client := <-h.register
RunRegister ==
    /\ intake.register /= <<>>
    /\ RegisterCase(Received(intake.register).sess)
    /\ intake' = [intake EXCEPT !.register = Tail(@),
                                !.last = Received(intake.register)]
    /\ UNCHANGED proc

\* Run: case client := <-h.unregister
RunUnregister ==
    /\ intake.unregister /= <<>>
    /\ UnregisterCase(Received(intake.unregister).sess)
    /\ intake' = [intake EXCEPT !.unregister = Tail(@),
                                !.last = Received(intake.unregister)]
    /\ UNCHANGED proc

\* Run: case message := <-h.broadcast
RunBroadcast ==
    /\ intake.broadcast /= <<>>
    /\ BroadcastCase(Received(intake.broadcast).sess, Received(intake.broadcast).chan)
    /\ intake' = [intake EXCEPT !.broadcast = Tail(@),
                                !.last = Received(intake.broadcast)]
    /\ UNCHANGED proc

\* The tasks of the sessions S submitting on the channels of the Hub, and Run's
\* select taking whichever channel is ready.
RunStep(S, C) ==
    \/ \E s \in S : SubmitRegister(s)
    \/ \E s \in S : SubmitUnregister(s)
    \/ \E s \in S, c \in C : SubmitBroadcast(s, c)
    \/ RunRegister
    \/ RunUnregister
    \/ RunBroadcast
    \/ \E s \in S, c \in C : Join(s, c)
    \/ \E s \in S : Drain(s)

NextRun == RunStep({"s1", "s3"}, {"c1"})

SpecRun == Init /\ [][NextRun]_vars

\* ------------------------------------------------------------------ claims
\* The events that publish intents put into the queues.
Intents == {"message_sent", "user_typing"}

SameChannel(e1, e2) ==
    /\ e1.type \in Intents /\ e2.type \in Intents
    /\ e1.chan = e2.chan

\* C1: of two events published to one channel, a session that holds both has
\* the one accepted first (the smaller timestamp) ahead in its outbound queue,
\* and what it has written to the wire was accepted before everything of that
\* channel still queued.
C1_PublishOrder ==
    \A s \in Sessions :
        /\ \A i, j \in 1..Len(send[s]) :
             (i < j /\ SameChannel(send[s][i], send[s][j]))
                => send[s][i].seq < send[s][j].seq
        /\ \A i \in 1..Len(send[s]) :
             SameChannel(wire[s], send[s][i]) => wire[s].seq < send[s][i].seq

\* A session has written one event of a channel to the wire and holds two more
\* of that channel, a typing event and a chat message.
C1_Witness ==
    \E s \in Sessions :
        /\ Len(send[s]) = 2
        /\ SameChannel(send[s][1], send[s][2])
        /\ SameChannel(wire[s], send[s][1])
        /\ send[s][1].type /= send[s][2].type

\* C2: a session is in a channel's member set exactly if the channel is in the
\* session's joined set.
C2_Bidirectional ==
    \A s \in Sessions, c \in Channels : (s \in rooms[c]) <=> (c \in joined[s])

\* A join was just rejected while one session is closed and another is a member.
C2_Witness ==
    /\ reply = "NotAMember"
    /\ \E s \in Sessions : closed[s] /\ s \notin clients
    /\ \E s \in Sessions, c \in Channels : s \in rooms[c] /\ c \in joined[s]

\* The references that the cascade of close(s) releases.
Released(s) ==
    /\ \A c \in Channels : s \notin rooms[c]
    /\ joined[s] = {}
    /\ \A k \in Calls : s \notin calls[k].sess

\* C3: a session that the hub has closed and removed from its registry is in
\* no channel's member set and in no call's session set.
C3_NoDanglingSession ==
    \A s \in Sessions : (closed[s] /\ s \notin clients) => Released(s)

\* The events that the spec lets a full queue drop.
NonCritical == {"user_typing"}

HasNonCritical(queue) == \E i \in 1..Len(queue) : queue[i].type \in NonCritical

\* The queue without its oldest non-critical event.
RECURSIVE DropOldestNonCritical(_)
DropOldestNonCritical(queue) ==
    IF queue = <<>> THEN <<>>
    ELSE IF Head(queue).type \in NonCritical THEN Tail(queue)
    ELSE <<Head(queue)>> \o DropOldestNonCritical(Tail(queue))

\* This step is an accepted publish whose fan-out ran to its end.
PublishStep ==
    /\ accepted' = accepted + 1
    /\ emitted' /= <<>>
    /\ emitted'[1].fact = "published"
    /\ ~panicked'

\* The event of this publish step and the sessions it is enqueued to.
StepEvent == emitted'[1].event

StepRecipients ==
    IF StepEvent.type = "message_sent" THEN rooms[StepEvent.chan]
    ELSE rooms[StepEvent.chan] \ {emitted'[1].origin}

\* The enqueue of this publish step finds the queue of s full.
EnqueueOnFull(s) ==
    /\ PublishStep
    /\ s \in StepRecipients
    /\ Len(send[s]) = QueueCap

ForcedClose(s) ==
    /\ ~closed[s]
    /\ closed'[s]
    /\ ~(/\ emitted' /= <<>>
         /\ emitted'[1].fact = "session_closed"
         /\ emitted'[1].session = s)

NoSaturationEvent ==
    \A s \in Sessions : \A i \in 1..Len(send[s]) : send[s][i].type /= "QueueSaturated"

\* C9: enqueue force-closes a session only when its full queue holds nothing
\* droppable, with the cascade of close(s), and enqueues no QueueSaturated event.
C9_SaturationCascades ==
    [][\A s \in Sessions :
         ForcedClose(s)
            => /\ Len(send[s]) = QueueCap
               /\ ~HasNonCritical(send[s])
               /\ Released(s)'
               /\ NoSaturationEvent']_vars

\* C4: a user is online exactly if it has a live session.
C4_OnlineIffLive ==
    \A u \in Users : (status[u] = "online") <=> (LiveSessions(clients, u) /= {})

\* The presence-changed (offline) facts about u that a step emitted.
OfflineFacts(u, facts) ==
    Cardinality({i \in 1..Len(facts) : facts[i] = PresenceFact(u, "offline")})

PresenceFacts(u, facts) ==
    Cardinality({i \in 1..Len(facts) :
        facts[i] \in {PresenceFact(u, "offline"), PresenceFact(u, "online")}})

\* C10: the step that takes a user's last live session away sets the user
\* offline and emits one presence-changed (offline) fact; a step that takes a
\* session away while another stays live leaves the status and emits none; and
\* a further close of a user without live sessions emits none.
C10_OfflineExactlyOnce ==
    [][\A u \in Users :
         LET before == LiveSessions(clients, u)
             after == LiveSessions(clients', u) IN
         /\ (before /= {} /\ after = {})
               => (status'[u] = "offline" /\ OfflineFacts(u, emitted') = 1)
         /\ (after /= {} /\ after /= before /\ after \subseteq before)
               => (status'[u] = status[u] /\ PresenceFacts(u, emitted') = 0)
         /\ (before = {} /\ after = {} /\ emitted' /= emitted)
               => OfflineFacts(u, emitted') = 0]_vars

RelayStep ==
    /\ accepted' = accepted + 1
    /\ emitted' /= <<>>
    /\ emitted'[1].fact = "relay"

StepEnvelope == emitted'[1].envelope

\* The sessions of the envelope's recipient that are party to its call.
RecipientInCall(env) == {t \in calls[env.call].sess : UserOf(t) = env.recipient}

\* The step enqueues the envelope, as submitted, to s.
Forwarded(s) ==
    /\ Len(send'[s]) = Len(send[s]) + 1
    /\ SubSeq(send'[s], 1, Len(send[s])) = send[s]
    /\ send'[s][Len(send'[s])].type = StepEnvelope.kind
    /\ send'[s][Len(send'[s])].data = StepEnvelope

Stopped(u, c) ==
    IF emitted' = emitted THEN 0
    ELSE Cardinality({i \in 1..Len(emitted') : emitted'[i] = StoppedFact(u, c)})

C13_JoinIdempotent ==
    [][/\ \A s \in Sessions, c \in Channels :
            (Join(s, c) /\ s \in rooms[c])
               => (rooms' = rooms /\ joined' = joined /\ reply' = "ok")
       /\ PublishStep => \A s \in Sessions : Len(send'[s]) <= Len(send[s]) + 1]_vars

\* A member of a channel that holds it alone has just been sent one message of
\* that channel, and has it once.
C13_Witness ==
    /\ ~panicked
    /\ emitted /= <<>>
    /\ emitted[1].fact = "published"
    /\ \E s \in clients :
          /\ emitted[1].event.chan \in joined[s]
          /\ rooms[emitted[1].event.chan] = {s}
          /\ send[s] = <<emitted[1].event>>
          /\ wire[s] = NoEvent

\* C14: a close of a session that is not in the registry (closed before, or
\* never opened) succeeds, changes neither the Membership Index, the presence
\* records, the calls nor any queue, and emits nothing.
C14_CloseIdempotent ==
    [][\A s \in Sessions :
         (Unregister(s) /\ s \notin clients)
            => /\ reply' = "ok" /\ ~panicked'
               /\ emitted' = <<>>
               /\ UNCHANGED <<clients, rooms, joined, send, closed, wire,
                              status, calls, typing>>]_vars

\* Every session is gone, one of them closed with its cascade, and the last
\* step of the Coordinator, a further close, emitted nothing; a queue still
\* holds what it held.
C14_Witness ==
    /\ ~panicked
    /\ clients = {}
    /\ emitted = <<>> /\ reply = "ok"
    /\ \A u \in Users : status[u] = "offline"
    /\ \E s \in Sessions : closed[s] /\ Released(s) /\ send[s] /= <<>>

\* The channels a user has no access to.
NoAccess(u, c) == u = "u2" /\ c = "c2"

\* This step rejects an intent with err: an error for the originator, nothing
\* emitted, and no index, presence record, call or queue touched.
Rejected(err) ==
    /\ reply' = err
    /\ emitted' = <<>>
    /\ ~panicked'
    /\ UNCHANGED <<clients, rooms, joined, send, closed, wire, accepted,
                   status, calls, typing, now>>

\* C15: a join or send against a channel the user has no access to, a
\* start-call in a channel the session is no member of, and a join-call to a
\* call that does not exist or has ended each return their error to the
\* originator and change nothing else.
C15_RejectedIntentNoChange ==
    [][\A s \in Sessions :
         /\ \A c \in Channels :
               /\ (Join(s, c) /\ NoAccess(UserOf(s), c)) => Rejected("NotAMember")
               /\ (BroadcastMessage(s, c) /\ NoAccess(UserOf(s), c))
                     => Rejected("NotAMember")
               /\ (StartCall(s, c) /\ s \notin rooms[c]) => Rejected("ChannelNotFound")
         /\ \A k \in Calls :
               /\ (JoinCall(s, k) /\ calls[k].state = "none") => Rejected("CallNotFound")
               /\ (JoinCall(s, k) /\ calls[k].state = "ended") => Rejected("CallEnded")]_vars

\* An intent was just rejected with NotAMember while the channel in question
\* has a member that holds an event, and a call has ended.
C15_Witness ==
    /\ reply = "NotAMember" /\ emitted = <<>>
    /\ \E s \in clients : s \in rooms["c2"] /\ send[s] /= <<>>
    /\ \E t \in clients : NoAccess(UserOf(t), "c2")
    /\ \E k \in Calls : calls[k].state = "ended"

\* C16: a joinCall returns CallNotFound exactly if no call has the id and
\* CallEnded exactly if the call has ended, in both cases with the calls as
\* they were; and a call that has ended keeps its state and stays without
\* participants.
C16_JoinCallErrors ==
    [][\A k \in Calls :
         /\ \A s \in Sessions :
               JoinCall(s, k)
                  => /\ (reply' = "CallNotFound") <=> (calls[k].state = "none")
                     /\ (reply' = "CallEnded") <=> (calls[k].state = "ended")
                     /\ calls[k].state \in {"none", "ended"} => calls' = calls
         /\ calls[k].state = "ended"
               => (calls'[k].state = "ended" /\ calls'[k].sess = {})]_vars

\* A joinCall by a live member of the call's channel was just turned down with
\* CallEnded: the call has ended and holds nobody.
C16_Witness ==
    /\ reply = "CallEnded" /\ emitted = <<>>
    /\ \E k \in Calls :
          /\ calls[k].state = "ended" /\ calls[k].sess = {}
          /\ \E s, t \in clients : s /= t /\ {s, t} \subseteq rooms[calls[k].chan]

\* The other sessions of the user of s that are party to call k.
FormerSessions(k, s) == {t \in calls[k].sess : t /= s /\ UserOf(t) = UserOf(s)}

\* C17: after every step a call holds at most one session of a user; and a
\* joinCall by a user who is party to the call with another session puts the
\* new session in the place of the former one and leaves the participant users
\* and the state of the call as they were.
C17_OneSessionPerUser ==
    [][\A k \in Calls :
         /\ \A s, t \in calls'[k].sess : UserOf(s) = UserOf(t) => s = t
         /\ \A s \in Sessions :
               (/\ JoinCall(s, k)
                /\ calls[k].state \in {"pending", "active"}
                /\ FormerSessions(k, s) /= {})
                  => /\ calls'[k].sess = (calls[k].sess \ FormerSessions(k, s)) \cup {s}
                     /\ Participants(k)' = Participants(k)
                     /\ calls'[k].state = calls[k].state
                     /\ reply' = "ok"]_vars

\* A pending call holds one session that is no member of the call's channel,
\* while the user's other session, the one that started the call, is live
\* still and no other user has ever connected: the starter was evicted.
C17_Witness ==
    \E k \in Calls, s, t \in clients :
        /\ s /= t /\ UserOf(s) = UserOf(t)
        /\ calls[k].state = "pending"
        /\ calls[k].sess = {s}
        /\ s \notin rooms[calls[k].chan]
        /\ t \in rooms[calls[k].chan]
        /\ \A r \in Sessions : UserOf(r) /= UserOf(s) => (r \notin clients /\ ~closed[r])

\* The call-ended facts about k among those a step emitted.
EndedFacts(k, facts) ==
    Cardinality({i \in 1..Len(facts) : facts[i] = [fact |-> "call_ended", call |-> k]})

\* The call-ended event of call k.
EndedEvent(k) == Notice("call_ended", calls[k].chan, k)

\* This step is a leaveCall of a session that is party to call k.
LeaveStep(s, k) == LeaveCall(s, k) /\ s \in calls[k].sess

\* What a leaveCall does to the call record and the fact stream.
LeaveOutcome(s, k) ==
    /\ calls'[k].sess = calls[k].sess \ {s}
    /\ IF calls[k].sess = {s}
       THEN /\ calls'[k].state = "ended"
            /\ EndedFacts(k, emitted') = 1
       ELSE /\ calls'[k].state = calls[k].state
            /\ calls'[k].state /= "ended"
            /\ EndedFacts(k, emitted') = 0
            /\ send' = send

PublishAccepted ==
    /\ accepted' = accepted + 1
    /\ emitted' /= <<>>
    /\ emitted'[1].fact = "published"

C20_SlowMemberHarmless ==
    [][PublishAccepted =>
         /\ ~panicked'
         /\ \A m \in StepRecipients :
               (~closed[m] /\ Len(send[m]) < QueueCap)
                  => send'[m] = Append(send[m], StepEvent)]_vars

\* The arrival stamps of the intents waiting on a channel.
Stamps(ch) == {ch[i].n : i \in 1..Len(ch)}

AllStamps == Stamps(intake.register) \cup Stamps(intake.unregister)
                \cup Stamps(intake.broadcast)

\* This step is one in which Run receives an intent.
Receives == intake'.last /= intake.last

\* The channels that this step takes an intent from.
TakenFrom ==
    {f \in {"register", "unregister", "broadcast"} :
        intake[f] /= <<>> /\ intake'[f] = Tail(intake[f])}

Programs == {"main", "services"}

\* A slip in GetEnv: an empty value is returned as it is.
GetEnv_Lenient(env, key) == [panic |-> FALSE, value |-> env[key]]

\* func GetEnv(key string) string: the value, or a panic if it is empty.
GetEnv(env, key) == [panic |-> env[key] = "", value |-> env[key]]

\* The first variable, in reading order, on which GetEnv panics.
FirstPanic(env) ==
    LET bad == {i \in 1..Len(EnvVars) : GetEnv(env, EnvVars[i]).panic} IN
    IF bad = {} THEN 0 ELSE CHOOSE i \in bad : \A j \in bad : i <= j

\* func LoadApplicationConfig() *ApplicationConfig
LoadApplicationConfig(env) ==
    IF FirstPanic(env) /= 0
    THEN [panic |-> TRUE, config |-> NoConfig]
    ELSE [panic |-> FALSE,
          config |-> [Port   |-> GetEnv(env, "PORT").value,
                      DBHost |-> GetEnv(env, "DB_HOST").value,
                      DBPort |-> GetEnv(env, "DB_PORT").value,
                      DBUser |-> GetEnv(env, "DB_USER").value,
                      DBPass |-> GetEnv(env, "DB_PASSWORD").value,
                      DBName |-> GetEnv(env, "DB_NAME").value,
                      DBSSL  |-> GetEnv(env, "DB_SSLMODE").value,
                      Env    |-> GetEnv(env, "ENVIRONMENT").value]]

\* func NewDatabaseConnection(config) (*DatabaseConnection, error), where
\* openOk and pingOk are the outcomes of sql.Open and db.Ping; db is the state
\* in which it leaves the handle of sql.Open.
NewDatabaseConnection(config, openOk, pingOk) ==
    IF ~openOk
    THEN [conn |-> NoConn, err |-> "failed to open database", db |-> "none"]
    ELSE IF ~pingOk
    THEN [conn |-> NoConn, err |-> "failed to ping database", db |-> "open"]
    ELSE [conn |-> [set |-> TRUE, Host |-> config.DBHost, Port |-> config.DBPort,
                    DBName |-> config.DBName],
          err |-> "nil", db |-> "open"]

\* services.CreateDatabaseClient(appConfig): the connection of
\* NewDatabaseConnection, or its error.
CreateDatabaseClient(config, openOk, pingOk) ==
    [panic |-> FALSE] @@ NewDatabaseConnection(config, openOk, pingOk)

\* func InitDatabase(appConfig, dbConnection) error: the connection is copied
\* to where dbConnection points, which panics if dbConnection is nil.
InitDatabase(config, dbConnection, openOk, pingOk) ==
    LET r == NewDatabaseConnection(config, openOk, pingOk) IN
    IF r.err /= "nil"
    THEN [panic |-> FALSE, conn |-> dbConnection, err |-> r.err, db |-> r.db]
    ELSE IF ~dbConnection.set
    THEN [panic |-> TRUE, conn |-> dbConnection, err |-> "nil", db |-> r.db]
    ELSE [panic |-> FALSE, conn |-> r.conn, err |-> "nil", db |-> r.db]

\* log.Fatalf: os.Exit(1), which runs no deferred call.
Fatalf(p) == [p EXCEPT !.pc = "exited", !.exit = "fatal"]

\* func (c *DatabaseConnection) Close() error, as a deferred call runs it.
Close(p) == [p EXCEPT !.db = "closed", !.closes = @ + 1]

\* A panic that nothing recovers: the deferred calls run, last first, and the
\* process exits.
RECURSIVE Unwind(_)
Unwind(p) ==
    IF p.deferred = <<>> THEN p
    ELSE Unwind(Close([p EXCEPT !.deferred = SubSeq(@, 1, Len(@) - 1)]))

Panic(p) == [Unwind(p) EXCEPT !.pc = "exited", !.exit = "panic"]

\* The body of a c.JSON call.
Response(code, st, err, host, port, name) ==
    [code |-> code, status |-> st, error |-> err, host |-> host, port |-> port,
     name |-> name]

\* func (c *DatabaseConnection) Health() error, with the outcome of its ping.
Health(conn, pingOk) == IF pingOk THEN "nil" ELSE "ping failed"

\* A slip in DatabaseHealthCheck: the error branch does not return.
DatabaseHealthCheck_NoReturn(conn, pingOk) ==
    (IF Health(conn, pingOk) /= "nil"
     THEN <<Response(503, "error", Health(conn, pingOk), "", "", "")>>
     ELSE <<>>)
    \o <<Response(200, "ok", "", conn.Host, conn.Port, conn.DBName)>>

\* func DatabaseHealthCheck(c, dbConnection): the c.JSON calls it makes.
DatabaseHealthCheck(conn, pingOk) ==
    IF Health(conn, pingOk) /= "nil"
    THEN <<Response(503, "error", Health(conn, pingOk), "", "", "")>>
    ELSE <<Response(200, "ok", "", conn.Host, conn.Port, conn.DBName)>>

\* The operating system starts one of the programs in some environment.
Exec(prog, env) ==
    /\ proc.pc = "none"
    /\ proc' = [proc EXCEPT !.prog = prog, !.pc = "start", !.env = env]
    /\ UNCHANGED <<hub, intake>>

\* main: appConfig := config.LoadApplicationConfig()
Configure ==
    /\ proc.pc = "start"
    /\ LET r == LoadApplicationConfig(proc.env) IN
       proc' = IF r.panic THEN Panic(proc)
               ELSE [proc EXCEPT !.pc = "loaded", !.config = r.config]
    /\ UNCHANGED <<hub, intake>>

\* main: the call of services.CreateDatabaseClient(appConfig), and in the
\* program of services/database.go the call of
\* services.InitDatabase(appConfig, dbConnection) with the package-level
\* dbConnection, which is nil.
Connect(openOk, pingOk) ==
    /\ proc.pc = "loaded"
    /\ LET r == IF proc.prog = "main"
                THEN CreateDatabaseClient(proc.config, openOk, pingOk)
                ELSE InitDatabase(proc.config, proc.conn, openOk, pingOk)
           p == [proc EXCEPT !.conn = r.conn, !.err = r.err, !.db = r.db,
                             !.opened = openOk, !.pinged = openOk /\ pingOk] IN
       proc' = IF r.panic THEN Panic(p) ELSE [p EXCEPT !.pc = "returned"]
    /\ UNCHANGED <<hub, intake>>

\* main: if err != nil { log.Fatalf }; defer Close(); the router and its routes.
Prepare ==
    /\ proc.pc = "returned"
    /\ proc' = IF proc.err /= "nil" THEN Fatalf(proc)
               ELSE [proc EXCEPT !.pc = "ready", !.deferred = Append(@, "Close")]
    /\ UNCHANGED <<hub, intake>>

\* main: router.Run(":" + appConfig.Port) starts to listen, or returns its
\* error at once.
Listen(ok) ==
    /\ proc.pc = "ready"
    /\ proc' = IF ok THEN [proc EXCEPT !.pc = "serving"] ELSE Fatalf(proc)
    /\ UNCHANGED <<hub, intake>>

\* The server answers a GET /api/v1/health/db.
HealthRequest(pingOk) ==
    /\ proc.pc = "serving"
    /\ proc.requests < MaxRequests
    /\ proc' = [proc EXCEPT !.requests = @ + 1,
                            !.ping = Health(proc.conn, pingOk),
                            !.resp = DatabaseHealthCheck(proc.conn, pingOk)]
    /\ UNCHANGED <<hub, intake>>

\* main: router.Run returns an error while serving; log.Fatalf.
ServeError ==
    /\ proc.pc = "serving"
    /\ proc' = Fatalf(proc)
    /\ UNCHANGED <<hub, intake>>

NextBoot ==
    \/ \E prog \in Programs, env \in Environments : Exec(prog, env)
    \/ Configure
    \/ \E openOk, pingOk \in BOOLEAN : Connect(openOk, pingOk)
    \/ Prepare
    \/ \E ok \in BOOLEAN : Listen(ok)
    \/ \E pingOk \in BOOLEAN : HealthRequest(pingOk)
    \/ ServeError

SpecBoot == Init /\ [][NextBoot]_vars

\* This step is Run's unregister case for session s.
CleanupStep(s) ==
    /\ Receives
    /\ TakenFrom = {"unregister"}
    /\ intake'.last.sess = s

\* C22: a session leaves the registry only in the unregister step that Run
\* takes for it, which removes it everywhere; until then it is fully present,
\* with its send channel open; and afterwards it is referenced nowhere, no step
\* enqueues to it and no step fails on it.
C22_CleanupIsOneStep ==
    [][\A s \in Sessions :
         /\ (s \in clients /\ s \notin clients')
               => (CleanupStep(s) /\ Released(s)' /\ closed'[s])
         /\ s \in clients => ~closed[s]
         /\ (s \notin clients /\ closed[s])
               => /\ Released(s)
                  /\ Len(send'[s]) <= Len(send[s])
                  /\ ~panicked']_vars

\* The presence-changed (online) facts of user u among the emitted facts.
OnlineFacts(u, facts) ==
    Cardinality({i \in 1..Len(facts) : facts[i] = PresenceFact(u, "online")})

\* The sessions of other users that sit in a channel with a session of u.
SharingWith(u) ==
    {m \in Sessions : /\ UserOf(m) /= u
                      /\ \E c \in Channels : /\ m \in rooms[c]
                                              /\ \E s \in rooms[c] : UserOf(s) = u}

\* The sessions whose outbound queue grows in this step.
Reached == {m \in Sessions : Len(send'[m]) > Len(send[m])}

Started == {k \in Calls : calls[k].state /= "none"}

Answers == proc'.requests = proc.requests + 1

\* C25: a request to /api/v1/health/db gets exactly one response, which is 503
\* with status "error" and the error text exactly when the ping of that
\* request fails, and 200 with status "ok" and the configured host, port and
\* database name otherwise.
C25_OneHealthResponse ==
    [][Answers =>
         /\ Len(proc'.resp) = 1
         /\ (proc'.resp[1].code = 503) <=> (proc'.ping /= "nil")
         /\ proc'.ping /= "nil"
               => proc'.resp[1] = [code |-> 503, status |-> "error",
                                   error |-> proc'.ping,
                                   host |-> "", port |-> "", name |-> ""]
         /\ proc'.ping = "nil"
               => proc'.resp[1] = [code |-> 200, status |-> "ok", error |-> "",
                                   host |-> proc.env["DB_HOST"],
                                   port |-> proc.env["DB_PORT"],
                                   name |-> proc.env["DB_NAME"]]]_vars

\* The server of main.go has answered a health request whose ping failed.
C25_Witness ==
    /\ proc.prog = "main" /\ proc.pc = "serving"
    /\ proc.requests >= 1
    /\ proc.ping = "ping failed"
    /\ Len(proc.resp) = 1 /\ proc.resp[1].code = 503

\* A required variable is unset or empty.
Missing(env) == \E k \in EnvKeys : env[k] = ""

C27_InitDatabaseSetsConnection ==
    (proc.prog = "services" /\ proc.pinged)
        => (proc.exit /= "panic" /\ proc.err = "nil" /\ proc.conn.set)

\* C28: after the connection attempt there is a connection whose ping
\* succeeded, or an error and no open database handle.
C28_NoHandleLeftOpen ==
    proc.pc \in {"returned", "ready", "serving", "exited"}
        => /\ proc.conn.set => proc.pinged
           /\ proc.err /= "nil" => (~proc.conn.set /\ proc.db /= "open")

\* C29: when main.go has exited after the connection was established, Close
\* has run exactly once.
C29_CloseOnExit ==
    (proc.prog = "main" /\ proc.pc = "exited" /\ proc.conn.set)
        => (proc.closes = 1 /\ proc.db = "closed")

\* C30: a send channel that is closed stays closed; an unregister of its
\* session leaves it and the hub alone; and a broadcast sends nothing on it:
\* the step does not append to it and does not fail on it.
C30_ClosedChannelUntouched ==
    [][\A s \in Sessions :
         closed[s] => /\ closed'[s]
                      /\ Unregister(s) => (send' = send /\ ~panicked')
                      /\ PublishAccepted => /\ Len(send'[s]) <= Len(send[s])
                                           /\ ~panicked']_vars

====
